---- MODULE Spec2Model ----
(***************************************************************************)
(* A model of got (src/main.rs): a content-addressed object store with     *)
(* blob, tree and commit objects, prefix resolution of object ids, the     *)
(* object codec and the recursive tree builder.                            *)
(*                                                                         *)
(* Bytes are naturals 0..255 and every string of the program is the        *)
(* sequence of its bytes ("a.txt" is <<97, 46, 116, 120, 116>>), so that   *)
(* delimiters, decimal and hexadecimal renderings and byte-wise ordering   *)
(* are computed, not assumed.                                              *)
(***************************************************************************)
EXTENDS Integers, Sequences, FiniteSets, TLC

(***************************************************************************)
(* Bounds of the model.                                                    *)
(***************************************************************************)
\* calls of write_object_hash the processes make in all
MaxCalls == 3
\* longest short count a single Write::write call is explored with
MaxShortWrite == 1
\* entries of the trees the codec is run on
MaxEntries == 2

(***************************************************************************)
(* Bytes and byte strings.                                                 *)
(***************************************************************************)
NUL == 0
LF == 10
SP == 32
PLUS == 43
MINUS == 45
DIGIT0 == 48
LOWER_A == 97
UPPER_A == 65
NODE_HASH_BYTES_LENGTH == 20
DIRECTORY_LENGTH == 2
MODE_TREE == 40000
MODE_FILE == 100644
MODE_EXEC == 100755

S_blob == <<98, 108, 111, 98>>
S_tree == <<116, 114, 101, 101>>
S_commit == <<99, 111, 109, 109, 105, 116>>
S_parent == <<112, 97, 114, 101, 110, 116>>
S_author == <<97, 117, 116, 104, 111, 114>>
S_committer == <<99, 111, 109, 109, 105, 116, 116, 101, 114>>
S_dotgit == <<46, 103, 105, 116>>
S_target == <<116, 97, 114, 103, 101, 116>>

Min(a, b) == IF a < b THEN a ELSE b

Take(s, n) == SubSeq(s, 1, Min(n, Len(s)))

Drop(s, n) == SubSeq(s, n + 1, Len(s))

\* str::starts_with
StartsWith(s, p) == Len(p) <= Len(s) /\ SubSeq(s, 1, Len(p)) = p

\* the least index i >= from with s[i] = b, or 0 when there is none
RECURSIVE IndexFrom(_, _, _)
IndexFrom(s, b, from) ==
  IF from > Len(s) THEN 0
  ELSE IF s[from] = b THEN from
  ELSE IndexFrom(s, b, from + 1)

\* str::split(sep): the pieces between the separators, empty pieces kept
RECURSIVE Split(_, _)
Split(s, sep) ==
  LET i == IndexFrom(s, sep, 1)
  IN IF i = 0 THEN <<s>>
     ELSE <<SubSeq(s, 1, i - 1)>> \o Split(Drop(s, i), sep)

\* [T]::join(sep)
RECURSIVE Join(_, _)
Join(parts, sep) ==
  IF Len(parts) = 0 THEN <<>>
  ELSE IF Len(parts) = 1 THEN parts[1]
  ELSE parts[1] \o <<sep>> \o Join(Tail(parts), sep)

RECURSIVE Concat(_)
Concat(parts) ==
  IF Len(parts) = 0 THEN <<>> ELSE parts[1] \o Concat(Tail(parts))

Zeros(n) == [i \in 1..n |-> 0]

\* String::from_utf8, on the single-byte (ASCII) range the model's text uses
IsUtf8(bs) == \A i \in 1..Len(bs) : bs[i] < 128

\* the decimal rendering "{}" of an unsigned integer
RECURSIVE DecStr(_)
DecStr(n) ==
  IF n < 10 THEN <<DIGIT0 + n>>
  ELSE DecStr(n \div 10) \o <<DIGIT0 + (n % 10)>>

IsDigit(b) == b >= DIGIT0 /\ b <= DIGIT0 + 9

RECURSIVE DigitsVal(_, _)
DigitsVal(s, acc) ==
  IF Len(s) = 0 THEN acc
  ELSE DigitsVal(Tail(s), acc * 10 + (s[1] - DIGIT0))

\* str::parse::<u32>() / ::<usize>(): an optional '+', then one or more
\* decimal digits; values of ten digits and more are out of the model's range
ParseDec(s) ==
  LET d == IF Len(s) > 0 /\ s[1] = PLUS THEN Tail(s) ELSE s
  IN IF Len(d) = 0 \/ Len(d) > 9 \/ \E i \in 1..Len(d) : ~IsDigit(d[i])
     THEN [ok |-> FALSE, val |-> 0]
     ELSE [ok |-> TRUE, val |-> DigitsVal(d, 0)]

\* one lowercase hexadecimal digit, as "{:x}" prints it
HexDigit(n) == IF n < 10 THEN DIGIT0 + n ELSE LOWER_A + (n - 10)

\* the value of one hexadecimal digit, as from_str_radix(_, 16) reads it
HexVal(c) ==
  IF IsDigit(c) THEN c - DIGIT0
  ELSE IF c >= LOWER_A /\ c <= LOWER_A + 5 THEN c - LOWER_A + 10
  ELSE IF c >= UPPER_A /\ c <= UPPER_A + 5 THEN c - UPPER_A + 10
  ELSE 0 - 1

\* bytes to hex text: format!("{:02x}", b) for every byte
RECURSIVE ToHex(_)
ToHex(bs) ==
  IF Len(bs) = 0 THEN <<>>
  ELSE <<HexDigit(bs[1] \div 16), HexDigit(bs[1] % 16)>> \o ToHex(Tail(bs))

\* hex text to bytes, two characters a byte (TreeNode::encode)
RECURSIVE FromHex(_)
FromHex(h) ==
  IF Len(h) < 2 THEN <<>>
  ELSE <<HexVal(h[1]) * 16 + HexVal(h[2])>> \o FromHex(Drop(h, 2))

\* byte-wise String::cmp: a < b
RECURSIVE BytesLess(_, _)
BytesLess(a, b) ==
  IF Len(b) = 0 THEN FALSE
  ELSE IF Len(a) = 0 THEN TRUE
  ELSE IF a[1] # b[1] THEN a[1] < b[1]
  ELSE BytesLess(Tail(a), Tail(b))

(***************************************************************************)
(* The digest.  SHA-1 is not computed: it is stood in for by a 20-byte     *)
(* fold of the input, a deterministic function of the bytes that is        *)
(* collision-free on the objects this model writes (DigestInjective),      *)
(* which is the property of SHA-1 the program relies on.                   *)
(***************************************************************************)
RECURSIVE FoldByte(_, _, _)
FoldByte(bs, i, w) ==
  IF i > Len(bs) THEN 0
  ELSE (w * bs[i] + FoldByte(bs, i + NODE_HASH_BYTES_LENGTH, w + 2)) % 256

Sha1(bs) == [i \in 1..NODE_HASH_BYTES_LENGTH |-> FoldByte(bs, i, 1)]

\* hasher.update(meta_data); hasher.update(content); format!("{:x}", ..)
HashObject(meta, content) == ToHex(Sha1(meta \o content))

\* get_path_from_hash: (first two characters, the rest)
GetPathFromHash(h) ==
  <<SubSeq(h, 1, DIRECTORY_LENGTH), Drop(h, DIRECTORY_LENGTH)>>

(***************************************************************************)
(* Objects.  A TreeNode is [name, hash, mode]; an object is a Blob, a Tree *)
(* or a Commit (enum ObjectHashTypes).                                     *)
(***************************************************************************)
None == [some |-> FALSE, val |-> <<>>]

Some(x) == [some |-> TRUE, val |-> x]

TreeNode(name, hash, mode) == [name |-> name, hash |-> hash, mode |-> mode]

Blob(content) == [kind |-> "blob", content |-> content]

Tree(items) == [kind |-> "tree", items |-> items]

Commit(c) == [kind |-> "commit", commit |-> c]

NoObject == [kind |-> "none"]

Ok(obj) == [ok |-> TRUE, err |-> "", obj |-> obj]

Err(e) == [ok |-> FALSE, err |-> e, obj |-> NoObject]

\* TreeNode::encode: "<mode> <name>\0" and the 20 raw bytes of the hash
TreeNodeEncode(node) ==
  DecStr(node.mode) \o <<SP>> \o node.name \o <<NUL>> \o FromHex(node.hash)

\* two decimal digits, zero padded
TwoDigits(n) == <<DIGIT0 + (n \div 10), DIGIT0 + (n % 10)>>

\* timestamp.format("%s %z"): seconds since the epoch, then +HHMM or -HHMM
TimestampFormat(ts) ==
  LET a == IF ts.off < 0 THEN 0 - ts.off ELSE ts.off
  IN DecStr(ts.secs) \o <<SP>> \o <<IF ts.off < 0 THEN MINUS ELSE PLUS>>
       \o TwoDigits(a \div 60) \o TwoDigits(a % 60)

\* impl Display for CommitContent
CommitToString(c) ==
  S_tree \o <<SP>> \o c.tree_sha \o <<LF>>
    \o (IF c.parent_sha.some
        THEN S_parent \o <<SP>> \o c.parent_sha.val \o <<LF>>
        ELSE <<>>)
    \o S_author \o <<SP>> \o c.author_name \o <<SP>> \o c.author_email
    \o <<SP>> \o TimestampFormat(c.timestamp) \o <<LF>>
    \o S_committer \o <<SP>> \o c.committer \o <<SP>> \o c.committer_email
    \o <<SP>> \o TimestampFormat(c.timestamp) \o <<LF>>
    \o <<LF>> \o c.message

\* the body of a Tree as write_object_hash builds it: the nodes' encodings
\* one after the other, in the order of items
RECURSIVE TreeContent(_)
TreeContent(items) ==
  IF Len(items) = 0 THEN <<>>
  ELSE TreeNodeEncode(items[1]) \o TreeContent(Tail(items))

\* write_object_hash, up to the call of write_object: (meta_data, content)
EncodeObject(obj) ==
  LET content ==
        CASE obj.kind = "blob" -> obj.content
          [] obj.kind = "tree" -> TreeContent(obj.items)
          [] OTHER -> CommitToString(obj.commit)
      word ==
        CASE obj.kind = "blob" -> S_blob
          [] obj.kind = "tree" -> S_tree
          [] OTHER -> S_commit
  IN [meta |-> word \o <<SP>> \o DecStr(Len(content)) \o <<NUL>>,
      content |-> content]

(***************************************************************************)
(* Decoding (parse_object_hash, after the file is opened).                 *)
(***************************************************************************)
\* parse_file_metadata: the first two pieces of the text split at spaces
ParseFileMetadata(text) ==
  LET toks == Split(text, SP)
  IN IF Len(toks) < 2
     THEN [ok |-> FALSE, first |-> <<>>, second |-> <<>>]
     ELSE [ok |-> TRUE, first |-> toks[1], second |-> toks[2]]

\* the loop of the "tree" branch; position is the 0-based offset of the code
RECURSIVE ParseTreeNodes(_, _, _)
ParseTreeNodes(buffer, position, nodes) ==
  IF ~(position < Len(buffer)) THEN Ok(Tree(nodes))
  ELSE
    LET nul == IndexFrom(buffer, NUL, position + 1)
        text == SubSeq(buffer, position + 1, nul - 1)
        md == ParseFileMetadata(text)
        mode == ParseDec(md.first)
        sha_start == nul
    IN IF nul = 0 THEN Err("MissingNul")
       ELSE IF ~IsUtf8(text) THEN Err("InvalidEncoding")
       ELSE IF ~md.ok THEN Err("MalformedEntry")
       ELSE IF ~mode.ok THEN Err("MalformedEntry")
       ELSE IF sha_start + NODE_HASH_BYTES_LENGTH > Len(buffer) THEN Err("Panic")
       ELSE ParseTreeNodes(
              buffer, sha_start + NODE_HASH_BYTES_LENGTH,
              Append(nodes,
                     TreeNode(md.second,
                              ToHex(SubSeq(buffer, sha_start + 1,
                                           sha_start + NODE_HASH_BYTES_LENGTH)),
                              mode.val)))

\* n.saturating_sub(k)
SatSub(n, k) == IF n < k THEN 0 ELSE n - k

\* DateTime::parse_from_str(.., "%s %z") on the texts TimestampFormat
\* produces for times from the epoch on: digits and [+-]HHMM
ParseTimestamp(unix_ts, tz) ==
  LET s == ParseDec(unix_ts)
      okTz == /\ Len(tz) = 5
              /\ tz[1] \in {PLUS, MINUS}
              /\ \A i \in 2..5 : IsDigit(tz[i])
      mins == DigitsVal(SubSeq(tz, 2, 3), 0) * 60 + DigitsVal(SubSeq(tz, 4, 5), 0)
  IN IF ~s.ok \/ ~okTz
     THEN [ok |-> FALSE, ts |-> [secs |-> 0, off |-> 0]]
     ELSE [ok |-> TRUE,
           ts |-> [secs |-> s.val,
                   off |-> IF tz[1] = MINUS THEN 0 - mins ELSE mins]]

\* find_field: the rest of the first header line that is "<prefix> ..."
FindField(header_lines, prefix) ==
  LET hit == {i \in 1..Len(header_lines) :
                /\ StartsWith(header_lines[i], prefix)
                /\ Len(header_lines[i]) > Len(prefix)
                /\ header_lines[i][Len(prefix) + 1] = SP}
      first == CHOOSE i \in hit : \A j \in hit : i <= j
  IN IF hit = {} THEN None
     ELSE Some(Drop(header_lines[first], Len(prefix) + 1))

NonEmpty(l) == Len(l) > 0

\* the "commit" branch
ParseCommit(buffer) ==
  LET lines == Split(buffer, LF)
      seps == {i \in 1..Len(lines) : Len(lines[i]) = 0}
      separator_pos == CHOOSE i \in seps : \A j \in seps : i <= j
      message == Join(SelectSeq(SubSeq(lines, separator_pos + 1, Len(lines)),
                                NonEmpty), LF)
      header_lines == SubSeq(lines, 1, separator_pos - 1)
      tree_sha == FindField(header_lines, S_tree)
      parent_sha == FindField(header_lines, S_parent)
      author_line == FindField(header_lines, S_author)
      committer_line == FindField(header_lines, S_committer)
      author_parts == Split(author_line.val, SP)
      n == Len(author_parts)
      ts == ParseTimestamp(author_parts[SatSub(n, 2) + 1],
                           author_parts[SatSub(n, 1) + 1])
      committer_parts == Split(committer_line.val, SP)
      m == Len(committer_parts)
  IN IF ~IsUtf8(buffer) THEN Err("InvalidEncoding")
     ELSE IF seps = {} THEN Err("MissingSeparator")
     ELSE IF ~tree_sha.some THEN Err("MissingField")
     ELSE IF ~author_line.some THEN Err("MissingField")
     ELSE IF ~committer_line.some THEN Err("MissingField")
     ELSE IF ~ts.ok THEN Err("BadTimestamp")
     ELSE Ok(Commit(
            [tree_sha |-> tree_sha.val,
             parent_sha |-> parent_sha,
             author_name |-> Join(SubSeq(author_parts, 1, SatSub(n, 3)), SP),
             author_email |-> author_parts[SatSub(n, 3) + 1],
             committer |-> Join(SubSeq(committer_parts, 1, SatSub(m, 3)), SP),
             committer_email |-> committer_parts[SatSub(m, 3) + 1],
             message |-> message,
             timestamp |-> ts.ts]))

\* parse_object_hash from read_until on: avail is what the decompressor
\* yields before it ends or fails.  The results of read_until and of
\* read_exact are discarded (let _ =), so a body shorter than the declared
\* size is left as the zeros the buffer was created with.
DecodeStream(avail) ==
  LET nul == IndexFrom(avail, NUL, 1)
      meta_data == SubSeq(avail, 1, nul - 1)
      md == ParseFileMetadata(meta_data)
      content_size == ParseDec(md.second)
      got == Take(Drop(avail, nul), content_size.val)
      buffer == got \o Zeros(content_size.val - Len(got))
  IN IF nul = 0 THEN Err("MalformedHeader")
     ELSE IF ~IsUtf8(meta_data) THEN Err("InvalidEncoding")
     ELSE IF ~md.ok THEN Err("MalformedHeader")
     ELSE IF ~content_size.ok THEN Err("MalformedHeader")
     ELSE IF md.first = S_blob
       THEN IF IsUtf8(buffer) THEN Ok(Blob(buffer)) ELSE Err("InvalidEncoding")
     ELSE IF md.first = S_tree THEN ParseTreeNodes(buffer, 0, <<>>)
     ELSE IF md.first = S_commit THEN ParseCommit(buffer)
     ELSE Err("UnsupportedObjectKind")

(***************************************************************************)
(* The object store: dirs is the set of shard directories that exist under *)
(* .git/objects, files maps <<dir, name>> to the bytes of that file.       *)
(***************************************************************************)
VARIABLES
  dirs, files,
  pc, arg, ret, via, again, calls, okWrites, rd,
  rq, rres,
  cin, cpath, cbytes, cdec,
  fs, stack, bret, lastWrite, nWrites

storeVars == <<dirs, files>>
procVars == <<pc, arg, ret, via, again, calls, okWrites, rd>>
resolveVars == <<rq, rres>>
codecVars == <<cin, cpath, cbytes, cdec>>
buildVars == <<fs, stack, bret, lastWrite, nWrites>>
vars == <<storeVars, procVars, resolveVars, codecVars, buildVars>>

\* The compressed stream, reduced to the shape of a zlib stream with one
\* stored block: the two header bytes, the block's length, the data, and a
\* one-byte stand-in for the Adler-32 trailer.
RECURSIVE SumBytes(_)
SumBytes(data) == IF Len(data) = 0 THEN 0 ELSE data[1] + SumBytes(Tail(data))

Adler(data) == (1 + SumBytes(data)) % 251

ZlibEncode(data) == <<120, 156, Len(data)>> \o data \o <<Adler(data)>>

\* ZlibDecoder: the bytes the reader yields before it ends or fails, and
\* whether the stream was complete and intact
ZlibDecode(stream) ==
  LET hasHeader == Len(stream) >= 3 /\ stream[1] = 120 /\ stream[2] = 156
      n == stream[3]
      data == Take(Drop(stream, 3), n)
  IN IF ~hasHeader THEN [data |-> <<>>, ok |-> FALSE]
     ELSE [data |-> data,
           ok |-> /\ Len(stream) = n + 4
                  /\ stream[n + 4] = Adler(data)]

\* the file names of the shard directory that start with hash_path
Candidates(fl, dir_path, hash_path) ==
  {f \in DOMAIN fl : f[1] = dir_path /\ StartsWith(f[2], hash_path)}

\* the mutant of GetObjectPath: with several matches, take one of them
GetObjectPathFirstMatch(ds, fl, dir_path, hash_path) ==
  LET possible == Candidates(fl, dir_path, hash_path)
  IN IF dir_path \notin ds
     THEN [ok |-> FALSE, err |-> "ReadDir", path |-> <<>>]
     ELSE IF possible = {}
     THEN [ok |-> FALSE, err |-> "NoMatch", path |-> <<>>]
     ELSE [ok |-> TRUE, err |-> "", path |-> CHOOSE f \in possible : TRUE]

\* get_object_path: fs::read_dir fails when the shard directory is missing
\* (io::ErrorKind::NotFound); no file matching is "no matching path", more
\* than one is "multiple matching"
GetObjectPath(ds, fl, dir_path, hash_path) ==
  LET possible == Candidates(fl, dir_path, hash_path)
  IN IF dir_path \notin ds
     THEN [ok |-> FALSE, err |-> "ReadDir", path |-> <<>>]
     ELSE IF possible = {}
     THEN [ok |-> FALSE, err |-> "NoMatch", path |-> <<>>]
     ELSE IF Cardinality(possible) > 1
     THEN [ok |-> FALSE, err |-> "Multiple", path |-> <<>>]
     ELSE [ok |-> TRUE, err |-> "", path |-> CHOOSE f \in possible : TRUE]

\* parse_object_hash: resolve, open, decompress, decode
ParseObjectHash(ds, fl, hash_object) ==
  LET p == GetPathFromHash(hash_object)
      found == GetObjectPath(ds, fl, p[1], p[2])
  IN IF ~found.ok THEN Err(found.err)
     ELSE DecodeStream(ZlibDecode(fl[found.path]).data)

\* what one call of Write::write may consume of buf: all of it, or (the
\* contract of Write::write, which flate2 uses once its output buffer is
\* full) only a first part; the count is discarded by the caller
WriteCounts(buf) ==
  {Len(buf)} \cup {n \in 1..MaxShortWrite : n < Len(buf)}

\* the mutant of StoreFile: the object file is not written
StoreFileNot(fl, path, bytes) == fl

\* the file at path holds bytes
StoreFile(fl, path, bytes) ==
  [f \in DOMAIN fl \cup {path} |-> IF f = path THEN bytes ELSE fl[f]]

(***************************************************************************)
(* write_object, step by step, run by two processes on one store.  A       *)
(* process that is idle may call write_object_hash on an object, and may   *)
(* read                                                                    *)
(* back (parse_object_hash) the id its last call returned.                 *)
(***************************************************************************)
Procs == {1, 2}

\* the blob content written: "ab"
BlobBodies == {<<97, 98>>}

\* the objects written: the blobs, the tree of one file "a" with the hash
\* of forty '0's, and a commit of that hash with the message "i"
WriteInputs ==
  {Blob(b) : b \in BlobBodies}
    \cup {Tree(<<TreeNode(<<97>>, [i \in 1..(2 * NODE_HASH_BYTES_LENGTH) |-> DIGIT0],
                          MODE_FILE)>>)}
    \cup {Commit([tree_sha |-> [i \in 1..(2 * NODE_HASH_BYTES_LENGTH) |-> DIGIT0],
                  parent_sha |-> None,
                  author_name |-> <<74>>,
                  author_email |-> <<101>>,
                  committer |-> <<67>>,
                  committer_email |-> <<109>>,
                  message |-> <<105>>,
                  timestamp |-> [secs |-> 7, off |-> 0]])}

\* the digest tells the written objects apart
DigestInjective ==
  \A x, y \in WriteInputs :
    HashObject(EncodeObject(x).meta, EncodeObject(x).content)
      = HashObject(EncodeObject(y).meta, EncodeObject(y).content)
      => x = y

NoArg == [meta |-> <<>>, content |-> <<>>, hash |-> <<>>]

NoRet == [ok |-> FALSE, err |-> "none", val |-> <<>>]

NoRead == [done |-> FALSE, avail |-> <<>>, res |-> Err("none")]

\* the path write_object derives from the hash
FullPath(a) == GetPathFromHash(a.hash)

\* the mutant of PathExists: the existence check is lost
PathExistsNever(fl, path) == FALSE

\* std::path::Path::new(&full_path).exists()
PathExists(fl, path) == path \in DOMAIN fl

\* the call: the header and the body of the object, and their digest
WCall(p, obj) ==
  LET e == EncodeObject(obj)
  IN /\ pc[p] = "idle"
     /\ calls[1] + calls[2] < MaxCalls
     /\ arg' = [arg EXCEPT ![p] = [meta |-> e.meta, content |-> e.content,
                                   hash |-> HashObject(e.meta, e.content)]]
     /\ again' = [again EXCEPT ![p] =
                    \E w \in okWrites : w[1] = e.meta /\ w[2] = e.content]
     /\ calls' = [calls EXCEPT ![p] = @ + 1]
     /\ pc' = [pc EXCEPT ![p] = "exists"]
     /\ ret' = [ret EXCEPT ![p] = NoRet]
     /\ via' = [via EXCEPT ![p] = "none"]
     /\ rd' = [rd EXCEPT ![p] = NoRead]
     /\ UNCHANGED <<storeVars, okWrites, resolveVars, codecVars, buildVars>>

\* if the path exists, return the hash
WExists(p) ==
  /\ pc[p] = "exists"
  /\ IF PathExists(files, FullPath(arg[p]))
     THEN /\ pc' = [pc EXCEPT ![p] = "idle"]
          /\ ret' = [ret EXCEPT ![p] = [ok |-> TRUE, err |-> "",
                                        val |-> arg[p].hash]]
          /\ via' = [via EXCEPT ![p] = "exists"]
          /\ okWrites' = okWrites \cup
                           {<<arg[p].meta, arg[p].content, arg[p].hash>>}
     ELSE /\ pc' = [pc EXCEPT ![p] = "mkdir"]
          /\ UNCHANGED <<ret, via, okWrites>>
  /\ UNCHANGED <<storeVars, arg, again, calls, rd,
                 resolveVars, codecVars, buildVars>>

\* fs::create_dir_all
WMkdir(p) ==
  /\ pc[p] = "mkdir"
  /\ dirs' = dirs \cup {FullPath(arg[p])[1]}
  /\ pc' = [pc EXCEPT ![p] = "open"]
  /\ UNCHANGED <<files, arg, ret, via, again, calls, okWrites, rd,
                 resolveVars, codecVars, buildVars>>

\* OpenOptions::new().write(true).create_new(true).open(..)?: the file is
\* created empty, or the call returns the error
WOpen(p) ==
  /\ pc[p] = "open"
  /\ IF FullPath(arg[p]) \in DOMAIN files
     THEN /\ pc' = [pc EXCEPT ![p] = "idle"]
          /\ ret' = [ret EXCEPT ![p] = [ok |-> FALSE, err |-> "AlreadyExists",
                                        val |-> <<>>]]
          /\ via' = [via EXCEPT ![p] = "error"]
          /\ UNCHANGED files
     ELSE /\ pc' = [pc EXCEPT ![p] = "stream"]
          /\ files' = StoreFile(files, FullPath(arg[p]), <<>>)
          /\ UNCHANGED <<ret, via>>
  /\ UNCHANGED <<dirs, arg, again, calls, okWrites, rd,
                 resolveVars, codecVars, buildVars>>

\* what the new file may hold when write_object returns: the stream of
\* the header and of what the write of the content consumed, or nothing,
\* when writing the stream to the file fails as the BufWriter is dropped
\* (Drop discards the error)
StreamOutcomes(meta, content) ==
  {ZlibEncode(meta \o Take(content, k)) : k \in WriteCounts(content)}
    \cup {<<>>}

\* zlib_encoder.write(meta_data); zlib_encoder.write(content); then the
\* encoder and the BufWriter are dropped, which finishes the stream and
\* writes it to the file; Ok(hash_object) whatever the writes returned
WStream(p) ==
  /\ pc[p] = "stream"
  /\ \E bytes \in StreamOutcomes(arg[p].meta, arg[p].content) :
       files' = StoreFile(files, FullPath(arg[p]), bytes)
  /\ pc' = [pc EXCEPT ![p] = "idle"]
  /\ ret' = [ret EXCEPT ![p] = [ok |-> TRUE, err |-> "", val |-> arg[p].hash]]
  /\ via' = [via EXCEPT ![p] = "created"]
  /\ okWrites' = okWrites \cup {<<arg[p].meta, arg[p].content, arg[p].hash>>}
  /\ UNCHANGED <<dirs, arg, again, calls, rd,
                 resolveVars, codecVars, buildVars>>

\* cat-file -p <the id the write returned>
ReadBack(p) ==
  LET path == GetPathFromHash(ret[p].val)
      found == GetObjectPath(dirs, files, path[1], path[2])
  IN /\ pc[p] = "idle"
     /\ ret[p].ok
     /\ ~rd[p].done
     /\ rd' = [rd EXCEPT ![p] =
                 [done |-> TRUE,
                  avail |-> IF found.ok
                            THEN ZlibDecode(files[found.path]).data
                            ELSE <<>>,
                  res |-> ParseObjectHash(dirs, files, ret[p].val)]]
     /\ UNCHANGED <<storeVars, pc, arg, ret, via, again, calls, okWrites,
                    resolveVars, codecVars, buildVars>>

IdleResolve == /\ rq = <<>>
               /\ rres = [ok |-> FALSE, err |-> "none", path |-> <<>>]

IdleCodec == /\ cin = NoObject
             /\ cpath = "none"
             /\ cbytes = <<>>
             /\ cdec = Err("none")

IdleBuild == /\ fs = <<>>
             /\ stack = <<>>
             /\ bret = <<>>
             /\ lastWrite = NoObject
             /\ nWrites = 0

IdleProcs == /\ pc = [p \in Procs |-> "idle"]
             /\ arg = [p \in Procs |-> NoArg]
             /\ ret = [p \in Procs |-> NoRet]
             /\ via = [p \in Procs |-> "none"]
             /\ again = [p \in Procs |-> FALSE]
             /\ calls = [p \in Procs |-> 0]
             /\ okWrites = {}
             /\ rd = [p \in Procs |-> NoRead]

Init ==
  /\ dirs = {}
  /\ files = <<>>
  /\ IdleProcs
  /\ IdleResolve
  /\ IdleCodec
  /\ IdleBuild

Next ==
  \/ \E p \in Procs : \E obj \in WriteInputs : WCall(p, obj)
  \/ \E p \in Procs : WExists(p)
  \/ \E p \in Procs : WMkdir(p)
  \/ \E p \in Procs : WOpen(p)
  \/ \E p \in Procs : WStream(p)
  \/ \E p \in Procs : ReadBack(p)

Spec == Init /\ [][Next]_vars

(***************************************************************************)
(* Claims about the store (checked under Spec).                            *)
(***************************************************************************)
Returned(p) == pc[p] = "idle" /\ calls[p] > 0

\* C1: a write of a header and body that an earlier call has written with
\* success returns at the existence check: it returns Ok with the id the
\* earlier call returned, and the store (directories and files) is unchanged.
C1_IdempotentWrite ==
  [][\A p \in Procs :
       (again[p] /\ pc[p] = "exists" /\ pc'[p] # pc[p])
         => /\ pc'[p] = "idle"
            /\ ret'[p].ok
            /\ <<arg[p].meta, arg[p].content, ret'[p].val>> \in okWrites
            /\ files' = files
            /\ dirs' = dirs]_vars

\* C1's case: a second write of the same content has returned
C1_Witness ==
  \E p \in Procs : again[p] /\ Returned(p) /\ ret[p].ok /\ via[p] = "exists"

\* C2: two processes writing the same content both return the same id as
\* success, whatever the interleaving, and AlreadyExists never reaches a
\* caller.
C2_ConcurrentWritesSucceed ==
  /\ \A p \in Procs : Returned(p) => ret[p].err # "AlreadyExists"
  /\ \A p, q \in Procs :
       (/\ p # q
        /\ Returned(p)
        /\ Returned(q)
        /\ arg[p] = arg[q])
         => ret[p].ok /\ ret[q].ok /\ ret[p].val = ret[q].val

\* C7: reading the id returned by the write that created the object of a
\* blob c, and put bytes in its file, yields the blob c, and the stored
\* bytes start with "blob <n>" and one NUL, n the length of c.
C7_BlobRoundTrip ==
  \A p \in Procs :
    (/\ rd[p].done
     /\ via[p] = "created"
     /\ StartsWith(arg[p].meta, S_blob)
     /\ rd[p].avail # <<>>)
      => /\ rd[p].res = Ok(Blob(arg[p].content))
         /\ StartsWith(rd[p].avail,
                       S_blob \o <<SP>> \o DecStr(Len(arg[p].content))
                         \o <<NUL>>)

\* the file of the object that p wrote holds the whole header and body
Persisted(p) ==
  /\ FullPath(arg[p]) \in DOMAIN files
  /\ files[FullPath(arg[p])] = ZlibEncode(arg[p].meta \o arg[p].content)

\* C11: a call that created the object file returns the id as success only
\* when the file holds the whole header and body, and returns
\* StoreWriteError otherwise; so a call that returns through the
\* already-exists path after such a success finds the whole object.
C11_WriteFailuresPropagate ==
  \A p \in Procs :
    /\ (Returned(p) /\ via[p] = "created")
         => \/ ret[p].ok /\ Persisted(p)
            \/ ~ret[p].ok /\ ret[p].err = "StoreWriteError" /\ ~Persisted(p)
    /\ (Returned(p) /\ via[p] = "exists" /\ again[p]) => Persisted(p)

\* the stored bytes declare a length and hold fewer bytes after the NUL
TruncatedBody(avail) ==
  LET nul == IndexFrom(avail, NUL, 1)
      md == ParseFileMetadata(SubSeq(avail, 1, nul - 1))
      size == ParseDec(md.second)
  IN /\ nul > 0
     /\ md.ok
     /\ size.ok
     /\ Len(avail) - nul < size.val

\* C9: decoding a stored object whose body is shorter than the header
\* declares fails with TruncatedBody and returns no object.
C9_TruncatedBodyDetected ==
  \A p \in Procs :
    (rd[p].done /\ TruncatedBody(rd[p].avail))
      => ~rd[p].res.ok /\ rd[p].res.err = "TruncatedBody"

(***************************************************************************)
(* Prefix resolution (cat-file -e <identifier>), over any store contents.  *)
(***************************************************************************)
\* a 40-character id: the given first characters, then '0's
HexPad(head) ==
  head \o [i \in 1..(2 * NODE_HASH_BYTES_LENGTH - Len(head)) |-> DIGIT0]

\* ids "ab12..", "ab13..", "ab20..", "cd12.."
CandidateIds ==
  {HexPad(<<97, 98, 49, 50>>), HexPad(<<97, 98, 49, 51>>),
   HexPad(<<97, 98, 50, 48>>), HexPad(<<99, 100, 49, 50>>)}

\* shard directories that may exist without the store holding a file in them
ExtraDirs == {<<97, 98>>, <<101, 102>>}

PrefixLengths == {2, 3, 4, 5, 2 * NODE_HASH_BYTES_LENGTH}

\* the identifiers asked for: prefixes of the candidate ids, full ids, and
\* "ab3", "ef", "ef01" that no candidate starts with
Queries ==
  {Take(id, n) : id \in CandidateIds, n \in PrefixLengths}
    \cup {<<97, 98, 51>>, <<101, 102>>, <<101, 102, 48, 49>>}

InitResolve ==
  /\ \E ids \in SUBSET CandidateIds :
       files = [f \in {GetPathFromHash(id) : id \in ids} |-> <<>>]
  /\ \E extra \in SUBSET ExtraDirs :
       dirs = {f[1] : f \in DOMAIN files} \cup extra
  /\ IdleProcs
  /\ IdleResolve
  /\ IdleCodec
  /\ IdleBuild

\* main, CatFile with -e: get_path_from_hash, then get_object_path
ResolveStep ==
  \E ident \in Queries :
    LET p == GetPathFromHash(ident)
    IN /\ rq' = ident
       /\ rres' = GetObjectPath(dirs, files, p[1], p[2])
       /\ UNCHANGED <<storeVars, procVars, codecVars, buildVars>>

NextResolve == ResolveStep

SpecResolve == InitResolve /\ [][NextResolve]_vars

\* the stored objects whose 40-character id starts with the identifier
Matching(ident) == {f \in DOMAIN files : StartsWith(f[1] \o f[2], ident)}

\* C3: the identifier resolves to the stored object when exactly one stored
\* object's id starts with it (so every full id of a stored object resolves
\* to that object); with no such object it fails as not found (no file of
\* the shard matches, or the shard directory does not exist and read_dir
\* fails with the system's not-found error); with two or more it fails as
\* ambiguous and no path is returned.
C3_PrefixResolution ==
  rq # <<>> =>
    /\ Cardinality(Matching(rq)) = 1 => rres.ok /\ rres.path \in Matching(rq)
    /\ Matching(rq) = {} => ~rres.ok /\ rres.err \in {"NoMatch", "ReadDir"}
    /\ Cardinality(Matching(rq)) > 1 =>
         ~rres.ok /\ rres.err = "Multiple" /\ rres.path = <<>>
    /\ (Len(rq) = 2 * NODE_HASH_BYTES_LENGTH
          /\ GetPathFromHash(rq) \in DOMAIN files)
         => rres.ok /\ rres.path = GetPathFromHash(rq)

\* C3's case: a prefix that two stored objects share has been asked for
C3_Witness ==
  /\ Len(rq) > DIRECTORY_LENGTH
  /\ Cardinality(Matching(rq)) > 1
  /\ rres.err = "Multiple"

(***************************************************************************)
(* The codec on bounded inputs: a tree or a commit is encoded as           *)
(* write_object_hash encodes it, either as given or, as the tree builder   *)
(* does, after sort_by on the names; what was encoded is then decoded.     *)
(***************************************************************************)
\* the mutant of SortByName: the entries are left in the order collected
SortByNameNot(items) == items

\* x goes after every entry whose name is not greater (a stable sort)
RECURSIVE InsertByName(_, _)
InsertByName(sorted, x) ==
  IF Len(sorted) = 0 THEN <<x>>
  ELSE IF BytesLess(x.name, sorted[1].name) THEN <<x>> \o sorted
  ELSE <<sorted[1]>> \o InsertByName(Tail(sorted), x)

RECURSIVE SortFrom(_, _)
SortFrom(items, sorted) ==
  IF Len(items) = 0 THEN sorted
  ELSE SortFrom(Tail(items), InsertByName(sorted, items[1]))

\* tree_nodes.sort_by(|a, b| a.name.cmp(&b.name))
SortByName(items) == SortFrom(items, <<>>)

\* names "a", "b", "a b"
EntryNames == {<<97>>, <<98>>, <<97, 32, 98>>}

EntryModes == {MODE_FILE, MODE_TREE}

\* forty '0's, and "ab12" followed by '0's
EntryHashes == {HexPad(<<>>), HexPad(<<97, 98, 49, 50>>)}

Entries ==
  {TreeNode(n, h, m) : n \in EntryNames, h \in EntryHashes, m \in EntryModes}

TreeInputs ==
  UNION {[1..n -> Entries] : n \in 0..MaxEntries}

\* messages "", "i", "i\n", "a\n\nb"
Messages == {<<>>, <<105>>, <<105, 10>>, <<97, 10, 10, 98>>}

\* names "J D" and "J"; times 7 s after the epoch at +0000 and at -0530
CommitInputs ==
  {[tree_sha |-> HexPad(<<>>),
    parent_sha |-> par,
    author_name |-> an,
    author_email |-> <<101>>,
    committer |-> <<67>>,
    committer_email |-> <<109>>,
    message |-> msg,
    timestamp |-> [secs |-> 7, off |-> off]] :
     par \in {None, Some(HexPad(<<97, 98, 49, 50>>))},
     an \in {<<74, 32, 68>>, <<74>>},
     msg \in Messages,
     off \in {0, 0 - 330}}

InitCodec ==
  /\ cin \in {Tree(t) : t \in TreeInputs} \cup {Commit(c) : c \in CommitInputs}
  /\ cpath = "none"
  /\ cbytes = <<>>
  /\ cdec = Err("none")
  /\ dirs = {}
  /\ files = <<>>
  /\ IdleProcs
  /\ IdleResolve
  /\ IdleBuild

\* header and body as they are handed to write_object
Encoded(obj) == EncodeObject(obj).meta \o EncodeObject(obj).content

\* write_object_hash on the object as given
CodecEncode ==
  /\ cpath = "none"
  /\ cpath' = "direct"
  /\ cbytes' = Encoded(cin)
  /\ UNCHANGED <<cin, cdec, storeVars, procVars, resolveVars, buildVars>>

\* sort_by on the names, then write_object_hash (the tree builder's order)
CodecSortEncode ==
  /\ cpath = "none"
  /\ cin.kind = "tree"
  /\ cpath' = "sorted"
  /\ cbytes' = Encoded(Tree(SortByName(cin.items)))
  /\ UNCHANGED <<cin, cdec, storeVars, procVars, resolveVars, buildVars>>

\* parse_object_hash on the bytes that were encoded
CodecDecode ==
  /\ cpath # "none"
  /\ cdec = Err("none")
  /\ cdec' = DecodeStream(cbytes)
  /\ UNCHANGED <<cin, cpath, cbytes, storeVars, procVars, resolveVars,
                 buildVars>>

NextCodec == CodecEncode \/ CodecSortEncode \/ CodecDecode

SpecCodec == InitCodec /\ [][NextCodec]_vars

\* the rearrangements of a sequence
Perms(s) ==
  {[i \in 1..Len(s) |-> s[f[i]]] :
     f \in {g \in [1..Len(s) -> 1..Len(s)] :
              \A i, j \in 1..Len(s) : i # j => g[i] # g[j]}}

DistinctNames(items) ==
  \A i, j \in 1..Len(items) : i # j => items[i].name # items[j].name

NamesAscend(items) ==
  \A i \in 1..(Len(items) - 1) : BytesLess(items[i].name, items[i + 1].name)

\* the entries in the order in which the bytes hold them
EmittedOrder(bytes) == DecodeStream(bytes).obj.items

\* C4 as claimed: write_object_hash on a tree emits the entries in ascending
\* name order whatever order they are given in, so every rearrangement of
\* the entries yields the same bytes and the same id.
C4_EncodeSorts ==
  (cin.kind = "tree" /\ cpath = "direct" /\ DistinctNames(cin.items))
    => \A q \in Perms(cin.items) :
         /\ Encoded(Tree(q)) = cbytes
         /\ HashObject(EncodeObject(Tree(q)).meta,
                       EncodeObject(Tree(q)).content)
              = HashObject(EncodeObject(cin).meta, EncodeObject(cin).content)

\* C4 amended: write_object_hash emits the entries in the order given; once
\* the entries (of distinct names) are sorted by name, as the tree builder
\* sorts them before it encodes, every rearrangement of them yields the
\* same bytes and the same id, and the names ascend.
C4_SortedEncodeDeterministic ==
  (cin.kind = "tree" /\ cpath = "sorted" /\ DistinctNames(cin.items))
    => /\ \A q \in Perms(cin.items) :
            /\ Encoded(Tree(SortByName(q))) = cbytes
            /\ HashObject(EncodeObject(Tree(SortByName(q))).meta,
                          EncodeObject(Tree(SortByName(q))).content)
                 = ToHex(Sha1(cbytes))
       /\ \E t \in Perms(cin.items) : NamesAscend(t) /\ Encoded(Tree(t)) = cbytes

\* C4's case: two entries given in descending name order were sorted and
\* encoded
C4_Witness ==
  /\ cin.kind = "tree"
  /\ cpath = "sorted"
  /\ Len(cin.items) = 2
  /\ BytesLess(cin.items[2].name, cin.items[1].name)

\* C5: decoding the encoded tree yields the same entries, names with
\* spaces included.
C5_TreeRoundTrip ==
  (cin.kind = "tree" /\ cpath = "direct" /\ cdec # Err("none"))
    => cdec = Ok(Tree(cin.items))

\* C6: decoding the encoded commit yields the same tree id, parent, author
\* name and email, and the same message, messages that end with a newline
\* or hold blank lines included.
C6_CommitRoundTrip ==
  (cin.kind = "commit" /\ cdec # Err("none"))
    => /\ cdec.ok
       /\ cdec.obj.commit.tree_sha = cin.commit.tree_sha
       /\ cdec.obj.commit.parent_sha = cin.commit.parent_sha
       /\ cdec.obj.commit.author_name = cin.commit.author_name
       /\ cdec.obj.commit.author_email = cin.commit.author_email
       /\ cdec.obj.commit.message = cin.commit.message

(***************************************************************************)
(* The tree builder (write-tree): get_tree_nodes_from_git_directory over a *)
(* working directory, the recursion kept as an explicit stack of frames    *)
(* [path, todo, nodes]: todo are the entries read_dir has not yet yielded  *)
(* (it yields them in any order), nodes is tree_nodes.                     *)
(***************************************************************************)
N_a == <<97, 46, 116, 120, 116>>
N_b == <<98, 46, 116, 120, 116>>
N_d == <<100>>

File(content, exec) == [kind |-> "file", content |-> content, exec |-> exec]

Dir == [kind |-> "dir", content |-> <<>>, exec |-> TRUE]

\* the entries a working directory may hold: a.txt ("x" or "y"), b.txt
\* ("x"), d/, d/a.txt ("x"), d/b.txt ("y", executable), .git/, .git/a.txt
Universe(ca) ==
  [p \in {<<N_a>>, <<N_b>>, <<N_d>>, <<N_d, N_a>>, <<N_d, N_b>>,
          <<S_dotgit>>, <<S_dotgit, N_a>>} |->
     CASE p = <<N_a>> -> File(ca, FALSE)
       [] p = <<N_b>> -> File(<<120>>, FALSE)
       [] p = <<N_d, N_a>> -> File(<<120>>, FALSE)
       [] p = <<N_d, N_b>> -> File(<<121>>, TRUE)
       [] p = <<S_dotgit, N_a>> -> File(<<120>>, FALSE)
       [] OTHER -> Dir]

\* every entry but the root has its directory
Closed(paths) ==
  \A p \in paths : Len(p) > 1 => SubSeq(p, 1, Len(p) - 1) \in paths

WorkingDirs ==
  {[p \in paths |-> Universe(ca)[p]] :
     paths \in {ps \in SUBSET DOMAIN Universe(<<120>>) : Closed(ps)},
     ca \in {<<120>>, <<121>>}}

\* the names of the entries of the directory at path
Children(tree, path) ==
  {p[Len(p)] : p \in {q \in DOMAIN tree :
                        Len(q) = Len(path) + 1 /\ SubSeq(q, 1, Len(path)) = path}}

IGNORED_DIRECTORY == {S_dotgit, S_target}

\* metadata.mode() & 0o111 != 0
GitMode(entry) == IF entry.exec THEN MODE_EXEC ELSE MODE_FILE

\* write_object run by one process from call to return: dirs, files and
\* the value returned; k is what the write of the content consumes
WriteObject(ds, fl, meta, content, k) ==
  LET hash == HashObject(meta, content)
      path == GetPathFromHash(hash)
  IN IF PathExists(fl, path)
     THEN [dirs |-> ds, files |-> fl, hash |-> hash]
     ELSE [dirs |-> ds \cup {path[1]},
           files |-> StoreFile(fl, path, ZlibEncode(meta \o Take(content, k))),
           hash |-> hash]

Frame(path, todo, nodes) == [path |-> path, todo |-> todo, nodes |-> nodes]

Top == stack[Len(stack)]

SetTop(fr) == [stack EXCEPT ![Len(stack)] = fr]

InitBuild ==
  /\ fs \in WorkingDirs
  /\ stack = <<Frame(<<>>, Children(fs, <<>>), <<>>)>>
  /\ bret = <<>>
  /\ lastWrite = NoObject
  /\ nWrites = 0
  /\ dirs = {}
  /\ files = <<>>
  /\ IdleProcs
  /\ IdleResolve
  /\ IdleCodec

\* a regular file: read it, write the blob, push its node
BFile ==
  /\ stack # <<>>
  /\ \E name \in Top.todo :
       LET entry == fs[Top.path \o <<name>>]
           e == EncodeObject(Blob(entry.content))
       IN /\ entry.kind = "file"
          /\ \E k \in WriteCounts(e.content) :
               LET w == WriteObject(dirs, files, e.meta, e.content, k)
               IN /\ dirs' = w.dirs
                  /\ files' = w.files
                  /\ stack' = SetTop(Frame(Top.path, Top.todo \ {name},
                                 Append(Top.nodes,
                                        TreeNode(name, w.hash, GitMode(entry)))))
                  /\ lastWrite' = [kind |-> "blob", collected |-> <<>>,
                                   items |-> <<>>, bytes |-> e.meta \o e.content,
                                   hash |-> w.hash]
  /\ nWrites' = nWrites + 1
  /\ UNCHANGED <<fs, bret, procVars, resolveVars, codecVars>>

\* a directory that is not ignored: the recursive call
BEnter ==
  /\ stack # <<>>
  /\ \E name \in Top.todo :
       /\ fs[Top.path \o <<name>>].kind = "dir"
       /\ name \notin IGNORED_DIRECTORY
       /\ stack' = Append(SetTop(Frame(Top.path, Top.todo \ {name}, Top.nodes)),
                          Frame(Top.path \o <<name>>,
                                Children(fs, Top.path \o <<name>>), <<>>))
  /\ UNCHANGED <<fs, bret, lastWrite, nWrites, storeVars, procVars,
                 resolveVars, codecVars>>

\* an ignored directory: nothing is done with it
BSkip ==
  /\ stack # <<>>
  /\ \E name \in Top.todo :
       /\ fs[Top.path \o <<name>>].kind = "dir"
       /\ name \in IGNORED_DIRECTORY
       /\ stack' = SetTop(Frame(Top.path, Top.todo \ {name}, Top.nodes))
  /\ UNCHANGED <<fs, bret, lastWrite, nWrites, storeVars, procVars,
                 resolveVars, codecVars>>

\* the call for a subdirectory returns its sorted nodes; the caller writes
\* the tree and pushes its node with mode 40000
BReturn ==
  /\ Len(stack) > 1
  /\ Top.todo = {}
  /\ LET sub_tree_nodes == SortByName(Top.nodes)
         e == EncodeObject(Tree(sub_tree_nodes))
         parent == stack[Len(stack) - 1]
         name == Top.path[Len(Top.path)]
     IN \E k \in WriteCounts(e.content) :
          LET w == WriteObject(dirs, files, e.meta, e.content, k)
          IN /\ dirs' = w.dirs
             /\ files' = w.files
             /\ stack' = [SubSeq(stack, 1, Len(stack) - 1)
                            EXCEPT ![Len(stack) - 1] =
                              Frame(parent.path, parent.todo,
                                    Append(parent.nodes,
                                           TreeNode(name, w.hash, MODE_TREE)))]
             /\ lastWrite' = [kind |-> "tree", collected |-> Top.nodes,
                              items |-> sub_tree_nodes,
                              bytes |-> e.meta \o e.content, hash |-> w.hash]
  /\ nWrites' = nWrites + 1
  /\ UNCHANGED <<fs, bret, procVars, resolveVars, codecVars>>

\* main, WriteTree: the call for the working directory returns and its
\* tree is written
BFinish ==
  /\ Len(stack) = 1
  /\ Top.todo = {}
  /\ LET tree_nodes == SortByName(Top.nodes)
         e == EncodeObject(Tree(tree_nodes))
     IN \E k \in WriteCounts(e.content) :
          LET w == WriteObject(dirs, files, e.meta, e.content, k)
          IN /\ dirs' = w.dirs
             /\ files' = w.files
             /\ bret' = w.hash
             /\ lastWrite' = [kind |-> "tree", collected |-> Top.nodes,
                              items |-> tree_nodes,
                              bytes |-> e.meta \o e.content, hash |-> w.hash]
  /\ stack' = <<>>
  /\ nWrites' = nWrites + 1
  /\ UNCHANGED <<fs, procVars, resolveVars, codecVars>>

NextBuild == BFile \/ BEnter \/ BSkip \/ BReturn \/ BFinish

SpecBuild == InitBuild /\ [][NextBuild]_vars

(***************************************************************************)
(* Claims about the tree builder (checked under SpecBuild).                *)
(***************************************************************************)
\* the names of a set in ascending byte-wise order, least first
RECURSIVE Ascending(_)
Ascending(names) ==
  IF names = {} THEN <<>>
  ELSE LET least == CHOOSE n \in names :
                      \A o \in names : o = n \/ BytesLess(n, o)
       IN <<least>> \o Ascending(names \ {least})

\* the id of the tree of the directory at path, computed from the working
\* directory alone: its entries in ascending name order, ignored
\* directories left out
RECURSIVE RefTreeId(_)
RefNode(path, name) ==
  LET entry == fs[path \o <<name>>]
      b == EncodeObject(Blob(entry.content))
  IN IF entry.kind = "file"
     THEN TreeNode(name, HashObject(b.meta, b.content), GitMode(entry))
     ELSE TreeNode(name, RefTreeId(path \o <<name>>), MODE_TREE)

RefTreeId(path) ==
  LET names == Ascending({n \in Children(fs, path) :
                            fs[path \o <<n>>].kind = "file"
                              \/ n \notin IGNORED_DIRECTORY})
      e == EncodeObject(Tree([i \in 1..Len(names) |-> RefNode(path, names[i])]))
  IN HashObject(e.meta, e.content)

NamesOf(items) == [i \in 1..Len(items) |-> items[i].name]

\* C8: every tree the builder writes has its entries sorted by name in
\* ascending byte-wise order, whatever order read_dir yielded them in, the
\* bytes written hold them in that order, and the id returned for the
\* working directory is the one its contents determine.
C8_BuiltTreeSorted ==
  /\ lastWrite.kind = "tree" =>
       /\ NamesAscend(lastWrite.items)
       /\ Len(lastWrite.items) = Len(lastWrite.collected)
       /\ NamesOf(EmittedOrder(lastWrite.bytes)) = NamesOf(lastWrite.items)
  /\ bret # <<>> => bret = RefTreeId(<<>>)

\* C8's case: read_dir yielded b.txt before a.txt and the tree was written
C8_Witness ==
  /\ lastWrite.kind = "tree"
  /\ NamesOf(lastWrite.collected) = <<N_b, N_a>>
  /\ NamesOf(lastWrite.items) = <<N_a, N_b>>
  /\ bret # <<>>

\* the store holds an object of the kind the node's mode stands for
StoredChild(node) ==
  LET path == GetPathFromHash(node.hash)
  IN /\ path \in DOMAIN files
     /\ StartsWith(ZlibDecode(files[path]).data,
                   (IF node.mode = MODE_TREE THEN S_tree ELSE S_blob) \o <<SP>>)

====
